---- MODULE Spec2Model ----
(***************************************************************************)
(* HelpDesk ticket management: the Ticket / Comment models                 *)
(* (apps/tickets/models.py), the UserProfile role (apps/user_profile/      *)
(* models.py), the profile / account views (apps/users/views.py) and the   *)
(* login / logout views (apps/user_auth/views.py).                         *)
(*                                                                         *)
(* The relational store is the shared state.  Every request handler        *)
(* (worker) holds at most one in-memory Ticket instance; Ticket.save()     *)
(* writes ALL fields of that instance to the row with its primary key.     *)
(* A store read or write is one atomic step; the Python statements         *)
(* between two store accesses belong to the step of the access before.     *)
(***************************************************************************)
EXTENDS Integers, Sequences, FiniteSets, TLC

\* ---------------------------------------------------------------- bounds
NumUsers   == 2      \* User rows that exist at start
NumWorkers == 2      \* concurrent request handlers
NumSeqWorkers == 1   \* request handlers at work where requests need not overlap
MaxTickets == 2      \* Ticket() constructions over a run
NumIds     == 2      \* distinct values get_random_string can return
MaxTime    == 2      \* distinct readings of timezone.now()
MaxAttempts == 3     \* colliding candidates counted per generate_ticket_id call
MaxComments == 2     \* Comment rows created by direct input over a run
NumSessions == 2     \* client sessions
NumNames   == 2      \* distinct strings sent as username, email or login
NumPasswords == 2    \* distinct strings sent as password

\* ------------------------------------------------------ program constants
NULL  == 0           \* None / SQL NULL of a nullable column
NoId  == 0           \* the empty ticket_id of a Ticket not yet saved
NoPk  == 0           \* the pk of a Ticket not yet saved

Users   == 1..NumUsers
Workers == 1..NumWorkers
\* the handlers at work in the specifications of one ticket (some of Workers)
SeqWorkers == 1..NumSeqWorkers
IdSpace == 1..NumIds          \* "TKT-<year>-<suffix>", one number per suffix
Times   == 1..MaxTime
Sessions  == 1..NumSessions
Names     == 1..NumNames
Passwords == 1..NumPasswords

STATUS_CHOICES == {"open", "in_progress", "resolved", "closed"}
ROLE_CHOICES   == {"user", "agent", "admin"}
\* the literals of Ticket.assign_to_agent and limit_choices_to
ASSIGNABLE_ROLES == {"AGENT", "ADMIN"}
\* UserProfile.role is a CharField: choices are validated by forms and
\* serializers, the column itself stores any short string.
RoleStrings == ROLE_CHOICES \cup ASSIGNABLE_ROLES
NoProfile   == "DoesNotExist"

\* the fields of Comment, and the keyword arguments assign_to_agent passes
COMMENT_FIELDS == {"ticket", "author", "content", "comment_type",
                   "is_internal", "created_at", "updated_at"}
AssignCommentKwargs == {"ticket", "user", "comment_type", "content"}

VARIABLES
    users,      \* set of User rows
    profile,    \* user -> role string of its UserProfile row, or NoProfile
    tickets,    \* pk -> Ticket row (a function whose domain is the stored pks)
    comments,   \* sequence of Comment rows, in created_at order
    nextpk,     \* the store's autoincrement for Ticket
    now,        \* the reading of timezone.now()
    inst,       \* worker -> its in-memory Ticket instance, or None
    pc,         \* worker -> where its Ticket.save() call stands
    attempts,   \* worker -> colliding candidates of its running generate_ticket_id
    ev,         \* what the last step did: operation, outcome, the worker (of
                \* a ticket operation) or session (of a request to a view)
                \* and the two arguments of the call
    session,    \* session -> the user it is authenticated as, or NULL
    cred        \* user -> username, email and password of its User row

vars == <<users, profile, tickets, comments, nextpk, now, inst, pc, attempts, ev,
          session, cred>>

\* the state of the accounts and sessions, which no ticket operation touches
authvars == <<session, cred>>

\* no instance held; pk -1 is no Ticket's pk
None    == [pk |-> -1, ticket_id |-> NoId, created_by |-> NULL, assigned_to |-> NULL,
            status |-> "open", resolved_at |-> NULL, closed_at |-> NULL]
NoEvent == [op |-> "none", ret |-> "none", w |-> 0, agent |-> 0, by |-> 0]

Event(op, ret, w, agent, by) ==
    [op |-> op, ret |-> ret, w |-> w, agent |-> agent, by |-> by]

\* no User row
NoCred == [username |-> NULL, email |-> NULL, password |-> NULL]

\* the User rows of setUp: every user its own username and email, one password
SetUpCred ==
    [u \in Users |-> [username |-> u, email |-> NumUsers + u, password |-> 1]]

\* ------------------------------------------------------------ Ticket rows
\* Ticket(created_by=u): the field defaults
NewInstance(u) ==
    [pk |-> NoPk, ticket_id |-> NoId, created_by |-> u, assigned_to |-> NULL,
     status |-> "open", resolved_at |-> NULL, closed_at |-> NULL]

\* Ticket.objects.filter(ticket_id=c).exists()
Exists(c) == \E k \in DOMAIN tickets : tickets[k].ticket_id = c

\* (mutant) ticket_id without unique=True
UniqueUnchecked(t) == TRUE

\* unique=True on ticket_id: no OTHER row holds the value
UniqueOk(t) ==
    \A k \in DOMAIN tickets : k # t.pk => tickets[k].ticket_id # t.ticket_id

\* the foreign keys created_by and assigned_to reference existing users
ForeignKeysOk(t) ==
    /\ t.created_by \in users
    /\ t.assigned_to = NULL \/ t.assigned_to \in users

\* (mutant) save() without its "if not self.ticket_id"
NeedsTicketIdAlways(t) == TRUE

\* "if not self.ticket_id"
NeedsTicketId(t) == t.ticket_id = NoId

\* (mutant) the stamps without their "and not self.resolved_at" guards
StampUnguarded(t) ==
    [t EXCEPT !.resolved_at = IF t.status = "resolved" THEN now ELSE @,
              !.closed_at = IF t.status = "closed" THEN now ELSE @]

\* lines 98-103 of Ticket.save, run after super().save() has written the row
StampAfterSave(t) ==
    [t EXCEPT !.resolved_at =
                  IF t.status = "resolved" /\ t.resolved_at = NULL THEN now ELSE @,
              !.closed_at =
                  IF t.status = "closed" /\ t.closed_at = NULL THEN now ELSE @]

\* the pk the row of instance t is written under (autoincrement on INSERT)
PkFor(t) == IF t.pk = NoPk THEN nextpk ELSE t.pk

\* the store after super().save() of t: every field of the instance is written
StoreWrite(t) ==
    LET k == PkFor(t)
        row == [t EXCEPT !.pk = k]
    IN  [j \in DOMAIN tickets \cup {k} |-> IF j = k THEN row ELSE tickets[j]]

\* ----------------------------------------------------------------- Init
Init ==
    /\ users = Users
    /\ profile = [u \in Users |-> NoProfile]
    /\ tickets = <<>>
    /\ comments = <<>>
    /\ nextpk = 1
    /\ now = 1
    /\ inst = [w \in Workers |-> None]
    /\ pc = [w \in Workers |-> "idle"]
    /\ attempts = [w \in Workers |-> 0]
    /\ ev = NoEvent
    /\ session = [s \in Sessions |-> NULL]
    /\ cred = SetUpCred

\* ------------------------------------------------------------ Ticket.save
\* the constraints the store checks when super().save() writes the row
SaveOk(t) == UniqueOk(t) /\ ForeignKeysOk(t)

\* super().save() of worker w's instance, then lines 98-103.  An
\* IntegrityError leaves the store and the instance as they were and ends
\* the request ("failed").
DoSave(w) ==
    LET t == inst[w] IN
    IF SaveOk(t)
    THEN /\ tickets' = StoreWrite(t)
         /\ nextpk' = IF t.pk = NoPk THEN nextpk + 1 ELSE nextpk
         /\ inst' = [inst EXCEPT ![w] = StampAfterSave([t EXCEPT !.pk = PkFor(t)])]
         /\ pc' = [pc EXCEPT ![w] = "idle"]
         /\ ev' = Event("save", "ok", w, NULL, NULL)
    ELSE /\ pc' = [pc EXCEPT ![w] = "failed"]
         /\ ev' = Event("save", "IntegrityError", w, NULL, NULL)
         /\ UNCHANGED <<tickets, nextpk, inst>>

\* Ticket(created_by=u) in a view: a new unsaved instance
NewTicket(w, u) ==
    /\ pc[w] = "idle" /\ inst[w] = None
    /\ u \in users
    /\ (nextpk - 1) + Cardinality({x \in Workers : inst[x].pk = NoPk}) < MaxTickets
    /\ inst' = [inst EXCEPT ![w] = NewInstance(u)]
    /\ ev' = NoEvent
    /\ UNCHANGED <<users, profile, tickets, comments, nextpk, now, pc, attempts>>
    /\ UNCHANGED authvars

\* Ticket.objects.get(pk=k)
Load(w, k) ==
    /\ pc[w] = "idle" /\ inst[w] = None
    /\ k \in DOMAIN tickets
    /\ inst' = [inst EXCEPT ![w] = tickets[k]]
    /\ ev' = NoEvent
    /\ UNCHANGED <<users, profile, tickets, comments, nextpk, now, pc, attempts>>
    /\ UNCHANGED authvars

\* the request ends (normally, or with the exception that failed it)
Discard(w) ==
    /\ pc[w] \in {"idle", "failed"} /\ inst[w] # None
    /\ inst' = [inst EXCEPT ![w] = None]
    /\ pc' = [pc EXCEPT ![w] = "idle"]
    /\ ev' = NoEvent
    /\ UNCHANGED <<users, profile, tickets, comments, nextpk, now, attempts>>
    /\ UNCHANGED authvars

\* ticket.status = s
SetStatus(w, s) ==
    /\ pc[w] = "idle" /\ inst[w] # None
    /\ s # inst[w].status
    /\ inst' = [inst EXCEPT ![w].status = s]
    /\ ev' = NoEvent
    /\ UNCHANGED <<users, profile, tickets, comments, nextpk, now, pc, attempts>>
    /\ UNCHANGED authvars

\* save() of an instance without ticket_id: enters generate_ticket_id
SaveNew(w) ==
    /\ pc[w] = "idle" /\ inst[w] # None
    /\ NeedsTicketId(inst[w])
    /\ pc' = [pc EXCEPT ![w] = "gen"]
    /\ attempts' = [attempts EXCEPT ![w] = 0]
    /\ ev' = NoEvent
    /\ UNCHANGED <<users, profile, tickets, comments, nextpk, now, inst>>
    /\ UNCHANGED authvars

\* one candidate of generate_ticket_id: draw c, ask the store whether it
\* exists; loop on a collision, return it otherwise.  The loop has no exit
\* but a free candidate.
GenDraw(w, c) ==
    /\ pc[w] = "gen"
    /\ IF Exists(c)
       THEN /\ attempts' = [attempts EXCEPT ![w] = IF @ < MaxAttempts THEN @ + 1 ELSE @]
            /\ UNCHANGED <<inst, pc>>
       ELSE /\ inst' = [inst EXCEPT ![w].ticket_id = c]
            /\ pc' = [pc EXCEPT ![w] = "write"]
            /\ attempts' = [attempts EXCEPT ![w] = 0]
    /\ ev' = NoEvent
    /\ UNCHANGED <<users, profile, tickets, comments, nextpk, now>>
    /\ UNCHANGED authvars

\* save() after generate_ticket_id returned: super().save() and the stamps
Write(w) ==
    /\ pc[w] = "write"
    /\ DoSave(w)
    /\ UNCHANGED <<users, profile, comments, now, attempts>>
    /\ UNCHANGED authvars

\* save() of an instance that has its ticket_id
Save(w) ==
    /\ pc[w] = "idle" /\ inst[w] # None
    /\ ~NeedsTicketId(inst[w])
    /\ DoSave(w)
    /\ UNCHANGED <<users, profile, comments, now, attempts>>
    /\ UNCHANGED authvars

\* timezone.now() advances
Tick ==
    /\ now < MaxTime
    /\ now' = now + 1
    /\ ev' = NoEvent
    /\ UNCHANGED <<users, profile, tickets, comments, nextpk, inst, pc, attempts>>
    /\ UNCHANGED authvars

\* ------------------------------------------------- Ticket.assign_to_agent
\* (mutant) the role test accepting every role that has a profile
RoleCheckAnyRole(r) == r \in RoleStrings

\* "agent.profile.role in ['AGENT', 'ADMIN']": a case-sensitive comparison
RoleCheck(r) == r \in ASSIGNABLE_ROLES

\* Model.__init__ raises TypeError on a keyword that names no field
CommentCreateOk(kwargs) == kwargs \subseteq COMMENT_FIELDS

\* "user=assigned_by or agent"
CommentUser(agent, by) == IF by # NULL THEN by ELSE agent

\* ticket.assign_to_agent(agent, assigned_by=by) on worker w's saved ticket.
\* agent.profile is the agent's UserProfile row (the reverse accessor the
\* views and serializers use).  No transaction surrounds self.save() and
\* Comment.objects.create().
AssignToAgent(w, agent, by) ==
    /\ pc[w] = "idle" /\ inst[w] # None
    /\ ~NeedsTicketId(inst[w])
    /\ agent \in users /\ by \in users \cup {NULL}
    /\ IF profile[agent] = NoProfile
       THEN \* agent.profile raises RelatedObjectDoesNotExist
            /\ ev' = Event("assign", "DoesNotExist", w, agent, by)
            /\ pc' = [pc EXCEPT ![w] = "failed"]
            /\ UNCHANGED <<tickets, nextpk, inst, comments>>
       ELSE IF ~RoleCheck(profile[agent])
       THEN /\ ev' = Event("assign", "False", w, agent, by)
            /\ UNCHANGED <<tickets, nextpk, inst, comments, pc>>
       ELSE LET t == [inst[w] EXCEPT !.assigned_to = agent] IN
            IF ~SaveOk(t)
            THEN \* self.save() raises IntegrityError
                 /\ inst' = [inst EXCEPT ![w] = t]
                 /\ ev' = Event("assign", "IntegrityError", w, agent, by)
                 /\ pc' = [pc EXCEPT ![w] = "failed"]
                 /\ UNCHANGED <<tickets, nextpk, comments>>
            ELSE /\ tickets' = StoreWrite(t)
                 /\ nextpk' = IF t.pk = NoPk THEN nextpk + 1 ELSE nextpk
                 /\ inst' = [inst EXCEPT ![w] = StampAfterSave([t EXCEPT !.pk = PkFor(t)])]
                 /\ IF ~CommentCreateOk(AssignCommentKwargs)
                    THEN /\ ev' = Event("assign", "TypeError", w, agent, by)
                         /\ pc' = [pc EXCEPT ![w] = "failed"]
                         /\ UNCHANGED comments
                    ELSE /\ comments' = Append(comments,
                                [ticket |-> PkFor(t), author |-> CommentUser(agent, by),
                                 comment_type |-> "system", content |-> agent])
                         /\ ev' = Event("assign", "True", w, agent, by)
                         /\ UNCHANGED pc
    /\ UNCHANGED <<users, profile, now, attempts>>
    /\ UNCHANGED authvars

\* ------------------------------------------------------ profiles and users
\* UserProfile.objects.create(user=u, role=r): no choices validation
CreateProfile(u, r) ==
    /\ u \in users /\ profile[u] = NoProfile
    /\ profile' = [profile EXCEPT ![u] = r]
    /\ ev' = NoEvent
    /\ UNCHANGED <<users, tickets, comments, nextpk, now, inst, pc, attempts>>
    /\ UNCHANGED authvars

\* ProfileViewSet.update by user u: ProfileSerializer accepts any of
\* ROLE_CHOICES for the writable field role
UpdateProfile(u, r) ==
    /\ u \in users /\ profile[u] # NoProfile
    /\ r # profile[u]
    /\ profile' = [profile EXCEPT ![u] = r]
    /\ ev' = NoEvent
    /\ UNCHANGED <<users, tickets, comments, nextpk, now, inst, pc, attempts>>
    /\ UNCHANGED authvars

\* ProfileViewSet.destroy by user u: the profile row only
DestroyProfile(u) ==
    /\ u \in users /\ profile[u] # NoProfile
    /\ profile' = [profile EXCEPT ![u] = NoProfile]
    /\ ev' = NoEvent
    /\ UNCHANGED <<users, tickets, comments, nextpk, now, inst, pc, attempts>>
    /\ UNCHANGED authvars

\* (mutant) assigned_to with on_delete=DO_NOTHING on a store that does not
\* check the reference
TicketsAfterDeleteDoNothing(u) ==
    [k \in {j \in DOMAIN tickets : tickets[j].created_by # u} |-> tickets[k]]

\* the rows left after User u is deleted: created_by CASCADE, assigned_to
\* SET_NULL
TicketsAfterDelete(u) ==
    LET keep == {k \in DOMAIN tickets : tickets[k].created_by # u}
    IN  [k \in keep |-> IF tickets[k].assigned_to = u
                         THEN [tickets[k] EXCEPT !.assigned_to = NULL]
                         ELSE tickets[k]]

\* Comment.ticket CASCADE and Comment.author CASCADE
CommentsAfterDelete(u) ==
    SelectSeq(comments,
              LAMBDA c : c.author # u /\ c.ticket \in DOMAIN TicketsAfterDelete(u))

\* delete_user_view by user u
DeleteUser(u) ==
    /\ u \in users
    /\ users' = users \ {u}
    /\ profile' = [profile EXCEPT ![u] = NoProfile]
    /\ tickets' = TicketsAfterDelete(u)
    /\ comments' = CommentsAfterDelete(u)
    /\ cred' = [cred EXCEPT ![u] = NoCred]
    /\ ev' = NoEvent
    /\ UNCHANGED <<nextpk, now, inst, pc, attempts, session>>

\* the assigned_by arguments tried: none, or user 1
AssignedBy == {NULL, 1}

\* ------------------------------------------------ comments and deletions
\* the foreign keys ticket and author of a Comment row reference stored rows
CommentForeignKeysOk(c) == c.ticket \in DOMAIN tickets /\ c.author \in users

\* Comment.objects.create(ticket=<worker w's ticket>, author=u, content=...):
\* a comment by direct input, comment_type left at its default
AddComment(w, u) ==
    /\ pc[w] = "idle" /\ inst[w] # None /\ inst[w].pk # NoPk
    /\ Len(comments) < MaxComments
    /\ LET c == [ticket |-> inst[w].pk, author |-> u,
                 comment_type |-> "comment", content |-> NULL]
       IN  IF CommentForeignKeysOk(c)
           THEN /\ comments' = Append(comments, c)
                /\ ev' = Event("comment", "ok", w, NULL, u)
                /\ UNCHANGED pc
           ELSE /\ ev' = Event("comment", "IntegrityError", w, NULL, u)
                /\ pc' = [pc EXCEPT ![w] = "failed"]
                /\ UNCHANGED comments
    /\ UNCHANGED <<users, profile, tickets, nextpk, now, inst, attempts>>
    /\ UNCHANGED authvars

\* Comment.ticket CASCADE: the comments left after Ticket k is deleted
CommentsAfterTicketDelete(k) == SelectSeq(comments, LAMBDA c : c.ticket # k)

\* Ticket.objects.get(pk=k).delete(); instances held in memory stay as they are
DeleteTicket(k) ==
    /\ k \in DOMAIN tickets
    /\ tickets' = [j \in DOMAIN tickets \ {k} |-> tickets[j]]
    /\ comments' = CommentsAfterTicketDelete(k)
    /\ ev' = Event("delete_ticket", "ok", NULL, NULL, NULL)
    /\ UNCHANGED <<users, profile, nextpk, now, inst, pc, attempts>>
    /\ UNCHANGED authvars

\* ------------------------------------------------------------ registration
\* UniqueValidator of User.username
UsernameTaken(n) == \E u \in users : cred[u].username = n

\* the pk of the next User row
NewUserPk == CHOOSE u \in Users \ users : \A v \in Users \ users : u <= v

\* the outcomes of one INSERT: the store accepts it, or fails it
StoreOutcomes == {"ok", "OperationalError"}

\* register_user_view with username n, email e, password p, password_confirm
\* pc2 and profile role r.  UserRegistrationSerializer validates (username
\* unique, both passwords equal, role one of ROLE_CHOICES; every password of
\* Passwords passes validate_password, every email of Names is well-formed,
\* email is not checked for uniqueness); create() then inserts the User row
\* (outcome o1) and after it the UserProfile row (outcome o2).  No transaction
\* surrounds the two inserts: each commits by itself.
Register(n, e, p, pc2, r, o1, o2) ==
    /\ Users \ users # {}
    /\ IF UsernameTaken(n) \/ p # pc2 \/ r \notin ROLE_CHOICES
       THEN /\ ev' = Event("register", "400", NULL, n, NULL)
            /\ UNCHANGED <<users, cred, profile>>
       ELSE IF o1 # "ok"
       THEN /\ ev' = Event("register", "500", NULL, n, NULL)
            /\ UNCHANGED <<users, cred, profile>>
       ELSE LET u == NewUserPk IN
            /\ users' = users \cup {u}
            /\ cred' = [cred EXCEPT ![u] = [username |-> n, email |-> e, password |-> p]]
            /\ IF o2 # "ok"
               THEN /\ ev' = Event("register", "500", NULL, n, NULL)
                    /\ UNCHANGED profile
               ELSE /\ profile' = [profile EXCEPT ![u] = r]
                    /\ ev' = Event("register", "201", NULL, n, NULL)
    /\ UNCHANGED <<tickets, comments, nextpk, now, inst, pc, attempts, session>>

\* ----------------------------------------------------------- login, logout
\* request.user of a request on session s is a user: the session names a
\* User row that exists
Authenticated(s) == session[s] # NULL /\ session[s] \in users

\* authenticate(username=n, password=p): the user with that username and
\* password, or None (every User row is active: create_user's default)
Authenticate(n, p) ==
    IF \E u \in users : cred[u].username = n /\ cred[u].password = p
    THEN CHOOSE u \in users : cred[u].username = n /\ cred[u].password = p
    ELSE NULL

\* User.objects.get(email=login): the rows it chooses from
EmailMatches(login) == {u \in users : cred[u].email = login}

\* LoginSerializer on {login, password}: the required fields, then
\* validate().  err is the key of serializer.errors, the exception raised, or
\* "none"; user is the authenticated user of a valid request.
LoginValidate(login, password) ==
    IF login = NULL \/ password = NULL
    THEN [err |-> IF login # NULL THEN "password"
                  ELSE IF password # NULL THEN "login" ELSE "login,password",
          user |-> NULL]
    ELSE IF Authenticate(login, password) # NULL
    THEN [err |-> "none", user |-> Authenticate(login, password)]
    ELSE IF EmailMatches(login) = {}
    THEN [err |-> "non_field_errors", user |-> NULL]
    ELSE IF Cardinality(EmailMatches(login)) > 1
    THEN [err |-> "MultipleObjectsReturned", user |-> NULL]
    ELSE LET user_obj == CHOOSE u \in EmailMatches(login) : TRUE
             user == Authenticate(cred[user_obj].username, password)
         IN  IF user = NULL
             THEN [err |-> "non_field_errors", user |-> NULL]
             ELSE [err |-> "none", user |-> user]

\* the keys of the dictionary validate() returns, and the key the view reads
ValidatedDataKeys == {"user_obj", "tokens"}
ViewReadsKey == "user"

\* (mutant) logout_user_view without flush() and logout()
SessionAfterLogoutKept(s) == session

\* request.session.flush() and logout(request)
SessionAfterLogout(s) == [session EXCEPT ![s] = NULL]

\* login_user_view on session s with body {login, password}
Login(s, login, password) ==
    /\ LET v == LoginValidate(login, password) IN
       IF v.err = "MultipleObjectsReturned"
       THEN /\ ev' = Event("login", "500:MultipleObjectsReturned", s, login, password)
            /\ UNCHANGED session
       ELSE IF v.err # "none"
       THEN /\ ev' = Event("login", "400:" \o v.err, s, login, password)
            /\ UNCHANGED session
       ELSE IF ViewReadsKey \notin ValidatedDataKeys
       THEN \* serializer.validated_data['user'] raises KeyError
            /\ ev' = Event("login", "500:KeyError", s, login, password)
            /\ UNCHANGED session
       ELSE /\ session' = [session EXCEPT ![s] = v.user]
            /\ ev' = Event("login",
                           IF profile[v.user] = NoProfile THEN "404" ELSE "200",
                           s, login, password)
    /\ UNCHANGED <<users, profile, tickets, comments, nextpk, now, inst, pc,
                   attempts, cred>>

\* client.force_authenticate(user=u): the requests of session s are u's
ForceAuthenticate(s, u) ==
    /\ u \in users /\ session[s] # u
    /\ session' = [session EXCEPT ![s] = u]
    /\ ev' = Event("force_authenticate", "ok", s, u, NULL)
    /\ UNCHANGED <<users, profile, tickets, comments, nextpk, now, inst, pc,
                   attempts, cred>>

\* logout_user_view on session s; IsAuthenticated refuses an anonymous caller
Logout(s) ==
    /\ IF ~Authenticated(s)
       THEN /\ ev' = Event("logout", "403", s, NULL, NULL)
            /\ UNCHANGED session
       ELSE /\ session' = SessionAfterLogout(s)
            /\ ev' = Event("logout", "200", s, NULL, NULL)
    /\ UNCHANGED <<users, profile, tickets, comments, nextpk, now, inst, pc,
                   attempts, cred>>

\* ------------------------------------------------- the profile endpoints
\* (mutant) the profile looked up by the pk of the URL, as get_object() does
ProfileByPk(u, pk) == pk

\* "UserProfile.objects.get(user=request.user)": the user whose profile a
\* request of user u on /profile/<pk>/ works on
OwnProfile(u, pk) == u

\* ProfileViewSet.retrieve on session s and URL pk; get_own_profile ("me")
\* calls it without a pk
ProfileRetrieve(s, pk) ==
    /\ IF ~Authenticated(s)
       THEN ev' = Event("retrieve", "403", s, NULL, pk)
       ELSE LET o == OwnProfile(session[s], pk) IN
            IF o \notin users \/ profile[o] = NoProfile
            THEN ev' = Event("retrieve", "404", s, NULL, pk)
            ELSE ev' = Event("retrieve", "200", s, o, pk)
    /\ UNCHANGED <<users, profile, tickets, comments, nextpk, now, inst, pc,
                   attempts, session, cred>>

\* ProfileViewSet.get_own_profile on session s
ProfileMe(s) == ProfileRetrieve(s, NULL)

\* ProfileViewSet.update on session s and URL pk with role r in the body
ProfileUpdate(s, pk, r) ==
    /\ IF ~Authenticated(s)
       THEN /\ ev' = Event("update", "403", s, NULL, pk)
            /\ UNCHANGED profile
       ELSE LET o == OwnProfile(session[s], pk) IN
            IF o \notin users \/ profile[o] = NoProfile
            THEN /\ ev' = Event("update", "404", s, NULL, pk)
                 /\ UNCHANGED profile
            ELSE IF r \notin ROLE_CHOICES
            THEN /\ ev' = Event("update", "400", s, NULL, pk)
                 /\ UNCHANGED profile
            ELSE /\ profile' = [profile EXCEPT ![o] = r]
                 /\ ev' = Event("update", "200", s, o, pk)
    /\ UNCHANGED <<users, tickets, comments, nextpk, now, inst, pc, attempts,
                   session, cred>>

\* ProfileViewSet.destroy on session s and URL pk: profile.delete()
ProfileDestroy(s, pk) ==
    /\ IF ~Authenticated(s)
       THEN /\ ev' = Event("destroy", "403", s, NULL, pk)
            /\ UNCHANGED profile
       ELSE LET o == OwnProfile(session[s], pk) IN
            IF o \notin users \/ profile[o] = NoProfile
            THEN /\ ev' = Event("destroy", "404", s, NULL, pk)
                 /\ UNCHANGED profile
            ELSE /\ profile' = [profile EXCEPT ![o] = NoProfile]
                 /\ ev' = Event("destroy", "204", s, o, pk)
    /\ UNCHANGED <<users, tickets, comments, nextpk, now, inst, pc, attempts,
                   session, cred>>

\* delete_user_view on session s: request.user deletes its own account
DeleteOwnUser(s) == Authenticated(s) /\ DeleteUser(session[s])

\* ----------------------------------------------------------------- Next
\* The whole system.  Its state space is large; the specifications below
\* keep its actions and restrict which of them run, and with what inputs.
Next ==
    \/ \E w \in Workers, u \in Users : NewTicket(w, u)
    \/ \E w \in Workers, k \in 1..MaxTickets : Load(w, k)
    \/ \E w \in Workers : Discard(w)
    \/ \E w \in Workers, s \in STATUS_CHOICES : SetStatus(w, s)
    \/ \E w \in Workers : SaveNew(w)
    \/ \E w \in Workers, c \in IdSpace : GenDraw(w, c)
    \/ \E w \in Workers : Write(w)
    \/ \E w \in Workers : Save(w)
    \/ \E w \in Workers, a \in Users, by \in AssignedBy : AssignToAgent(w, a, by)
    \/ \E u \in Users, r \in RoleStrings : CreateProfile(u, r)
    \/ \E u \in Users, r \in ROLE_CHOICES : UpdateProfile(u, r)
    \/ \E u \in Users : DestroyProfile(u)
    \/ \E u \in Users : DeleteUser(u)
    \/ \E w \in Workers, u \in Users : AddComment(w, u)
    \/ \E k \in 1..MaxTickets : DeleteTicket(k)
    \/ \E n \in Names, e \in Names, p \in Passwords, pc2 \in Passwords,
          r \in RoleStrings, o1 \in StoreOutcomes, o2 \in StoreOutcomes :
              Register(n, e, p, pc2, r, o1, o2)
    \/ \E s \in Sessions, l \in Names \cup {NULL}, p \in Passwords \cup {NULL} :
          Login(s, l, p)
    \/ \E s \in Sessions, u \in Users : ForceAuthenticate(s, u)
    \/ \E s \in Sessions : Logout(s)
    \/ \E s \in Sessions, pk \in Users : ProfileRetrieve(s, pk)
    \/ \E s \in Sessions : ProfileMe(s)
    \/ \E s \in Sessions, pk \in Users, r \in RoleStrings : ProfileUpdate(s, pk, r)
    \/ \E s \in Sessions, pk \in Users : ProfileDestroy(s, pk)
    \/ \E s \in Sessions : DeleteOwnUser(s)
    \/ Tick

Spec == Init /\ [][Next]_vars

\* ------------------------------------------------ the ticket lifecycle
\* One ticket, created and then loaded, changed and saved by the requests of
\* SeqWorkers; the profiles are fixed: the stored role of user 2 passes the role
\* check of assign_to_agent, every other user is a plain user.
LifeProfiles == [u \in Users |-> IF u = 2 THEN "AGENT" ELSE "user"]

InitLife ==
    /\ users = Users
    /\ profile = LifeProfiles
    /\ tickets = <<>>
    /\ comments = <<>>
    /\ nextpk = 1
    /\ now = 1
    /\ inst = [w \in Workers |-> None]
    /\ pc = [w \in Workers |-> "idle"]
    /\ attempts = [w \in Workers |-> 0]
    /\ ev = NoEvent
    /\ session = [s \in Sessions |-> NULL]
    /\ cred = SetUpCred

\* the first Ticket() of a run, while no other request holds an instance
FirstTicket(w, u) ==
    /\ nextpk = 1 /\ \A x \in Workers : inst[x] = None
    /\ NewTicket(w, u)

NextLife ==
    \/ \E w \in SeqWorkers : FirstTicket(w, 1)
    \/ \E w \in SeqWorkers, k \in 1..MaxTickets : Load(w, k)
    \/ \E w \in SeqWorkers : Discard(w)
    \/ \E w \in SeqWorkers, s \in STATUS_CHOICES : SetStatus(w, s)
    \/ \E w \in SeqWorkers : SaveNew(w)
    \/ \E w \in SeqWorkers, c \in IdSpace : GenDraw(w, c)
    \/ \E w \in SeqWorkers : Write(w)
    \/ \E w \in SeqWorkers : Save(w)
    \/ Tick

SpecLife == InitLife /\ [][NextLife]_vars

C2_PersistedStamped ==
    \A k \in DOMAIN tickets :
        /\ tickets[k].status = "resolved" => tickets[k].resolved_at # NULL
        /\ tickets[k].status = "closed" => tickets[k].closed_at # NULL

\* --------------------------------------------- assignment and the roles
\* One ticket, created by user 1; profiles are created, updated and destroyed
\* and users are deleted while requests assign the ticket.
NextAssign ==
    \/ \E w \in SeqWorkers : FirstTicket(w, 1)
    \/ \E w \in SeqWorkers, k \in 1..MaxTickets : Load(w, k)
    \/ \E w \in SeqWorkers : Discard(w)
    \/ \E w \in SeqWorkers : SaveNew(w)
    \/ \E w \in SeqWorkers, c \in IdSpace : GenDraw(w, c)
    \/ \E w \in SeqWorkers : Write(w)
    \/ \E w \in SeqWorkers : Save(w)
    \/ \E w \in SeqWorkers, a \in Users, by \in AssignedBy : AssignToAgent(w, a, by)
    \/ \E u \in Users, r \in RoleStrings : CreateProfile(u, r)
    \/ \E u \in Users, r \in ROLE_CHOICES : UpdateProfile(u, r)
    \/ \E u \in Users : DestroyProfile(u)
    \/ \E u \in Users : DeleteUser(u)

SpecAssign == Init /\ [][NextAssign]_vars

\* the row of the ticket the last step's worker holds
EvPk == inst[ev.w].pk

\* C3: assign_to_agent with an agent whose role is agent or admin returns
\* true, sets assigned_to to the agent and appends exactly one system comment
\* whose author is assigned_by when given and the agent otherwise.
C3_AssignValidAgent ==
    [][(ev'.op = "assign" /\ profile[ev'.agent] \in {"agent", "admin"}) =>
          /\ ev'.ret = "True"
          /\ tickets'[inst'[ev'.w].pk].assigned_to = ev'.agent
          /\ Len(comments') = Len(comments) + 1
          /\ comments'[Len(comments')].ticket = inst'[ev'.w].pk
          /\ comments'[Len(comments')].comment_type = "system"
          /\ comments'[Len(comments')].author =
                 (IF ev'.by # NULL THEN ev'.by ELSE ev'.agent)]_vars

\* C4: assign_to_agent with an agent whose role is user returns false without
\* raising and changes neither the ticket (stored or in memory) nor the
\* comments.
C4_AssignUserRefused ==
    [][(ev'.op = "assign" /\ profile[ev'.agent] = "user") =>
          /\ ev'.ret = "False"
          /\ tickets' = tickets /\ comments' = comments
          /\ inst' = inst /\ pc' = pc]_vars

\* assign_to_agent has just returned false for an agent with role user, on
\* a stored ticket
C4_Witness ==
    /\ ev.op = "assign" /\ ev.ret = "False"
    /\ profile[ev.agent] = "user"
    /\ EvPk \in DOMAIN tickets

\* C5: assignment is atomic: after assign_to_agent returns or fails, either
\* the stored ticket has the new assigned_to and the system comment exists,
\* or the store is as it was before the call.
C5_AssignAtomic ==
    [][ev'.op = "assign" =>
          \/ /\ inst'[ev'.w].pk \in DOMAIN tickets'
             /\ tickets'[inst'[ev'.w].pk].assigned_to = ev'.agent
             /\ Len(comments') = Len(comments) + 1
             /\ comments'[Len(comments')].ticket = inst'[ev'.w].pk
          \/ /\ tickets' = tickets /\ comments' = comments]_vars

\* C10: every stored ticket's assigned_to is null or a user whose current
\* profile role is agent or admin (in either spelling).
C10_AssigneeHasRole ==
    \A k \in DOMAIN tickets :
        \/ tickets[k].assigned_to = NULL
        \/ /\ tickets[k].assigned_to \in users
           /\ profile[tickets[k].assigned_to] \in {"agent", "admin", "AGENT", "ADMIN"}

\* ------------------------------------------------- concurrent creations
\* Up to MaxTickets tickets are created by concurrent requests, loaded and
\* saved again.
NextCreate ==
    \/ \E w \in Workers, u \in Users : NewTicket(w, u)
    \/ \E w \in Workers, k \in 1..MaxTickets : Load(w, k)
    \/ \E w \in Workers : Discard(w)
    \/ \E w \in Workers : SaveNew(w)
    \/ \E w \in Workers, c \in IdSpace : GenDraw(w, c)
    \/ \E w \in Workers : Write(w)
    \/ \E w \in Workers : Save(w)

SpecCreate == Init /\ [][NextCreate]_vars

\* C6: no two stored tickets have the same ticket_id, under any interleaving
\* of concurrent creations.
C6_TicketIdUnique ==
    \A j \in DOMAIN tickets, k \in DOMAIN tickets :
        j # k => tickets[j].ticket_id # tickets[k].ticket_id

\* a creation drew the ticket_id a concurrent creation has stored meanwhile,
\* and the store has rejected its write
C6_Witness ==
    \E w \in Workers :
        /\ ev = Event("save", "IntegrityError", w, NULL, NULL)
        /\ inst[w].pk = NoPk
        /\ Exists(inst[w].ticket_id)

\* C7: a creation whose write the store rejected as a duplicate retries the
\* generation of its ticket_id instead of failing.
C7_RejectedCreationRetries ==
    \A w \in Workers :
        (inst[w].pk = NoPk /\ ev = Event("save", "IntegrityError", w, NULL, NULL))
            => pc[w] \in {"gen", "write"}

\* C9: generate_ticket_id gives up (with a generation error) after a bounded
\* number of colliding candidates: it is never still looping after
\* MaxAttempts of them.
C9_RetryCeiling ==
    \A w \in Workers : pc[w] = "gen" => attempts[w] < MaxAttempts

\* ------------------------------------------------ every kind of later save
\* One ticket is created, then saved again after status changes and by
\* assignments, at one reading of the clock.
NextIdent ==
    \/ \E w \in SeqWorkers : FirstTicket(w, 1)
    \/ \E w \in SeqWorkers, k \in 1..MaxTickets : Load(w, k)
    \/ \E w \in SeqWorkers : Discard(w)
    \/ \E w \in SeqWorkers, s \in STATUS_CHOICES : SetStatus(w, s)
    \/ \E w \in SeqWorkers : SaveNew(w)
    \/ \E w \in SeqWorkers, c \in IdSpace : GenDraw(w, c)
    \/ \E w \in SeqWorkers : Write(w)
    \/ \E w \in SeqWorkers : Save(w)
    \/ \E w \in SeqWorkers, a \in Users, by \in AssignedBy : AssignToAgent(w, a, by)

SpecIdent == InitLife /\ [][NextIdent]_vars

\* C8: every stored ticket has a ticket_id, and no later save (after a status
\* change, by an assignment, of an unchanged instance) changes the ticket_id
\* of a stored ticket.
C8_TicketIdFixed ==
    [][/\ \A k \in DOMAIN tickets' : tickets'[k].ticket_id # NoId
       /\ \A k \in DOMAIN tickets \cap DOMAIN tickets' :
              tickets'[k].ticket_id = tickets[k].ticket_id]_vars

\* the stored ticket was saved while resolved, then saved again after its
\* status changed to closed, the last time by an assignment
C8_Witness ==
    /\ ev.op = "assign" /\ ev.ret = "TypeError"
    /\ EvPk \in DOMAIN tickets
    /\ tickets[EvPk].status = "closed"
    /\ tickets[EvPk].resolved_at # NULL
    /\ tickets[EvPk].assigned_to = ev.agent
    /\ tickets[EvPk].ticket_id = inst[ev.w].ticket_id

\* ------------------------------------------------ cascades of deletions
\* Tickets are created by either user, assigned, commented and deleted, and
\* users are deleted, while a request may still hold an instance loaded
\* before the deletion.
NextCascade ==
    \/ \E w \in SeqWorkers, u \in Users : FirstTicket(w, u)
    \/ \E w \in SeqWorkers, k \in 1..MaxTickets : Load(w, k)
    \/ \E w \in SeqWorkers : Discard(w)
    \/ \E w \in SeqWorkers : SaveNew(w)
    \/ \E w \in SeqWorkers, c \in IdSpace : GenDraw(w, c)
    \/ \E w \in SeqWorkers : Write(w)
    \/ \E w \in SeqWorkers : Save(w)
    \/ \E w \in SeqWorkers, a \in Users : AssignToAgent(w, a, NULL)
    \/ \E w \in SeqWorkers, u \in Users : AddComment(w, u)
    \/ \E k \in 1..MaxTickets : DeleteTicket(k)
    \/ \E u \in Users : DeleteUser(u)

SpecCascade == InitLife /\ [][NextCascade]_vars

\* no comment references a missing ticket, no ticket a missing assignee
NoDanglingReference ==
    /\ \A i \in 1..Len(comments) : comments[i].ticket \in DOMAIN tickets
    /\ \A k \in DOMAIN tickets :
           tickets[k].assigned_to = NULL \/ tickets[k].assigned_to \in users

\* a step that deletes a ticket leaves none of its comments
TicketDeleteCascades ==
    \A k \in DOMAIN tickets \ DOMAIN tickets' :
        \A i \in 1..Len(comments') : comments'[i].ticket # k

\* C11 (as stated): deleting a ticket deletes all of its comments; deleting a
\* user who is a ticket's assigned_to sets that assigned_to to null without
\* deleting the ticket; no comment references a missing ticket and no ticket
\* a missing assignee, in every reachable state.
C11_CascadeAsStated ==
    [][/\ TicketDeleteCascades
       /\ \A u \in users \ users' : \A k \in DOMAIN tickets :
              tickets[k].assigned_to = u =>
                  k \in DOMAIN tickets' /\ tickets'[k].assigned_to = NULL
       /\ NoDanglingReference']_vars

\* C11 (amended): as C11, but the ticket is kept with assigned_to null only
\* when the deleted user is not also its created_by; a ticket the deleted
\* user created is deleted.
C11_Cascade ==
    [][/\ TicketDeleteCascades
       /\ \A u \in users \ users' : \A k \in DOMAIN tickets :
              IF tickets[k].created_by = u
              THEN k \notin DOMAIN tickets'
              ELSE tickets[k].assigned_to = u =>
                       k \in DOMAIN tickets' /\ tickets'[k].assigned_to = NULL
       /\ NoDanglingReference']_vars

\* the assignee of a stored, commented ticket has been deleted: a request
\* still holds the instance it loaded with that assignee, the stored row has
\* assigned_to null and the ticket keeps its comment
C11_Witness ==
    \E w \in Workers :
        /\ inst[w].pk \in DOMAIN tickets
        /\ inst[w].assigned_to # NULL /\ inst[w].assigned_to \notin users
        /\ tickets[inst[w].pk].assigned_to = NULL
        /\ \E i \in 1..Len(comments) : comments[i].ticket = inst[w].pk

\* ------------------------------------- two requests on the same ticket
\* Request 1 creates the ticket; afterwards request 1 only changes the status
\* (and with it the stamps) and saves, request 2 only assigns: each loads the
\* ticket, mutates its own fields and saves, in any interleaving.
NextRace ==
    \/ FirstTicket(1, 1)
    \/ SaveNew(1)
    \/ \E c \in IdSpace : GenDraw(1, c)
    \/ Write(1)
    \/ \E w \in Workers, k \in 1..MaxTickets : Load(w, k)
    \/ \E w \in Workers : Discard(w)
    \/ \E s \in STATUS_CHOICES : SetStatus(1, s)
    \/ Save(1)
    \/ \E a \in Users : AssignToAgent(2, a, NULL)

SpecRace == InitLife /\ [][NextRace]_vars

\* C12: last-write-wins on the mutated fields: a save by the request that
\* mutated only assigned_to leaves the stored status and stamps as the other
\* request's saves wrote them, and a save by the request that mutated only the
\* status leaves the stored assigned_to as the other request's save wrote it.
C12_LastWriteWinsPerField ==
    [][\A k \in DOMAIN tickets \cap DOMAIN tickets' :
          /\ ev'.op = "assign" =>
                 /\ tickets'[k].status = tickets[k].status
                 /\ tickets'[k].resolved_at = tickets[k].resolved_at
                 /\ tickets'[k].closed_at = tickets[k].closed_at
          /\ ev'.op = "save" =>
                 tickets'[k].assigned_to = tickets[k].assigned_to]_vars

\* ------------------------------------------------- accounts and sessions
\* No account exists at start; users register, and clients log in and out.
InitAccounts ==
    /\ users = {}
    /\ profile = [u \in Users |-> NoProfile]
    /\ tickets = <<>>
    /\ comments = <<>>
    /\ nextpk = 1
    /\ now = 1
    /\ inst = [w \in Workers |-> None]
    /\ pc = [w \in Workers |-> "idle"]
    /\ attempts = [w \in Workers |-> 0]
    /\ ev = NoEvent
    /\ session = [s \in Sessions |-> NULL]
    /\ cred = [u \in Users |-> NoCred]

NextAccounts ==
    \/ \E n \in Names, e \in Names, p \in Passwords, pc2 \in Passwords,
          r \in RoleStrings, o1 \in StoreOutcomes, o2 \in StoreOutcomes :
              Register(n, e, p, pc2, r, o1, o2)
    \/ \E s \in Sessions, l \in Names \cup {NULL}, p \in Passwords \cup {NULL} :
          Login(s, l, p)
    \/ \E s \in Sessions, u \in Users : ForceAuthenticate(s, u)
    \/ \E s \in Sessions : Logout(s)

SpecAccounts == InitAccounts /\ [][NextAccounts]_vars

\* login and password are the credentials of user u, identified by its
\* username or by its email
ValidCredentials(u, login, password) ==
    /\ u \in users
    /\ login # NULL /\ password # NULL
    /\ cred[u].username = login \/ cred[u].email = login
    /\ cred[u].password = password

\* C13: a login request with the valid credentials of a user who has a
\* profile returns 200 and leaves the session authenticated as that user.
C13_LoginSucceeds ==
    [][(/\ ev'.op = "login"
        /\ \E u \in Users : /\ ValidCredentials(u, ev'.agent, ev'.by)
                             /\ profile[u] # NoProfile) =>
          /\ ev'.ret = "200"
          /\ ValidCredentials(session'[ev'.w], ev'.agent, ev'.by)]_vars

\* C14: a login request with a missing password, an unknown login or a wrong
\* password is rejected with 400 and the key of the failure, and leaves every
\* session as it was.
C14_LoginRejected ==
    [][(/\ ev'.op = "login"
        /\ \A u \in Users : ~ValidCredentials(u, ev'.agent, ev'.by)) =>
          /\ ev'.ret \in {"400:non_field_errors", "400:password",
                           "400:login", "400:login,password"}
          /\ session' = session]_vars

\* C16: after a registration request, successful or failed, every User row
\* it has created has its UserProfile row: both exist or neither does.
C16_RegistrationAtomic ==
    [][ev'.op = "register" =>
          \A u \in users' \ users : profile'[u] # NoProfile]_vars

\* ------------------------------------------- sessions and own profiles
\* The users and profiles of setUp exist; clients are authenticated, ask for
\* their profile, log out and delete their accounts.
SetUpProfiles ==
    [u \in Users |-> IF u = 1 THEN "user" ELSE IF u = 2 THEN "agent" ELSE "admin"]

InitSetUp ==
    /\ users = Users
    /\ profile = SetUpProfiles
    /\ tickets = <<>>
    /\ comments = <<>>
    /\ nextpk = 1
    /\ now = 1
    /\ inst = [w \in Workers |-> None]
    /\ pc = [w \in Workers |-> "idle"]
    /\ attempts = [w \in Workers |-> 0]
    /\ ev = NoEvent
    /\ session = [s \in Sessions |-> NULL]
    /\ cred = SetUpCred

NextSession ==
    \/ \E s \in Sessions, u \in Users : ForceAuthenticate(s, u)
    \/ \E s \in Sessions : Logout(s)
    \/ \E s \in Sessions : ProfileMe(s)
    \/ \E s \in Sessions : DeleteOwnUser(s)

SpecSession == InitSetUp /\ [][NextSession]_vars

\* the requests that need an authenticated session
ProfileOps == {"retrieve", "update", "destroy"}

\* C15: logout on an authenticated session returns 200 and leaves that
\* session unauthenticated, so that the next logout or profile request on it
\* is refused with 403; logout on an unauthenticated session returns 403 and
\* changes no session.
C15_Logout ==
    [][/\ ev'.op = "logout" =>
              IF Authenticated(ev'.w)
              THEN /\ ev'.ret = "200"
                   /\ session'[ev'.w] = NULL
                   /\ \A s \in Sessions \ {ev'.w} : session'[s] = session[s]
              ELSE /\ ev'.ret = "403"
                   /\ session' = session
       /\ (/\ ev.op = "logout" /\ ev.ret = "200"
           /\ ev'.op \in ProfileOps \cup {"logout"} /\ ev'.w = ev.w) =>
              ev'.ret = "403"]_vars

\* a logout has just returned 200: its session is anonymous, while another
\* session is still authenticated
C15_Witness ==
    /\ ev.op = "logout" /\ ev.ret = "200"
    /\ session[ev.w] = NULL
    /\ \E s \in Sessions : s # ev.w /\ Authenticated(s)

\* --------------------------------------------------------- own profiles
\* The users and profiles of setUp exist; clients are authenticated, call the
\* profile endpoints with any pk in the URL, and log out.
NextProfile ==
    \/ \E s \in Sessions, u \in Users : ForceAuthenticate(s, u)
    \/ \E s \in Sessions : Logout(s)
    \/ \E s \in Sessions, pk \in Users : ProfileRetrieve(s, pk)
    \/ \E s \in Sessions : ProfileMe(s)
    \/ \E s \in Sessions, pk \in Users, r \in RoleStrings : ProfileUpdate(s, pk, r)
    \/ \E s \in Sessions, pk \in Users : ProfileDestroy(s, pk)

SpecProfile == InitSetUp /\ [][NextProfile]_vars

\* C17: a request to a profile endpoint reads, changes or deletes no profile
\* but that of the user the session is authenticated as, whatever pk the URL
\* names; an unauthenticated request is refused; no User row is deleted.
C17_OwnProfileOnly ==
    [][ev'.op \in ProfileOps =>
          /\ users' = users /\ cred' = cred /\ session' = session
          /\ \A b \in Users : b # session[ev'.w] => profile'[b] = profile[b]
          /\ ev'.agent # NULL => ev'.agent = session[ev'.w]
          /\ ~Authenticated(ev'.w) => ev'.ret = "403" /\ profile' = profile]_vars

\* user A has just destroyed a profile through the URL of user B's: A's
\* profile is gone, A's account and B's profile are still there
C17_Witness ==
    /\ ev.op = "destroy" /\ ev.ret = "204"
    /\ ev.by # ev.agent /\ ev.by \in users /\ profile[ev.by] # NoProfile
    /\ ev.agent = session[ev.w] /\ ev.agent \in users
    /\ profile[ev.agent] = NoProfile

====
